---- MODULE Spec2Model ----
(***************************************************************************)
(* A model of src/cgmath/point.rs: the Point trait's default methods over  *)
(* Point2 and Point3, and Point3's homogeneous conversions.                *)
(*                                                                         *)
(* A point or vector of dimension n is a function 0..n-1 -> scalar, the    *)
(* index being the one Array::i takes (x = 0, y = 1, z = 2, w = 3).        *)
(* The scalar type S is a type parameter in the source.  Two instances     *)
(* are modelled: "i8", the 8-bit signed integer (two's complement, + - *   *)
(* wrap, / and % truncate toward zero and fail the task on a zero          *)
(* divisor; i8::MIN / -1 and i8::MIN % -1 do not fit and either trap or    *)
(* wrap, as the build has it), and "f32" on its integer-valued values      *)
(* below 2^30 in magnitude, where the exact result of + - * is an integer  *)
(* and the operation returns it rounded to a 24-bit significand, ties to   *)
(* even.  Quotients of f32 leave that subset, so the operations that       *)
(* divide are modelled for "i8" only.                                      *)
(*                                                                         *)
(* array.rs and vector.rs are not part of the sources at hand: Array::i,   *)
(* build, each_mut and the Vector methods point.rs calls are modelled as   *)
(* the specification describes them.                                       *)
(***************************************************************************)
EXTENDS Integers, FiniteSets, Sequences, TLC

VARIABLES
    S,          \* the scalar type the point is instantiated with
    overflow,   \* what this build does on IntMin / -1: "trap" or "wrap"
    p,          \* the receiver: a Point2<S> or a Point3<S>
    pre,        \* the receiver as it was when the last operation was called
    op,         \* the last operation called
    arg,        \* its inputs: the scalar s and the vector or point v
    ret,        \* the point or vector it returned (<<>>: none)
    sret,       \* the scalar it returned (dot)
    failed,     \* the last operation failed in scalar arithmetic (task failure)
    ncalls      \* operations called on the receiver since construction

vars == <<S, overflow, p, pre, op, arg, ret, sret, failed, ncalls>>

(***************************************************************************)
(* Bounds                                                                  *)
(***************************************************************************)
\* operations called on one constructed point
MaxCalls == 2

(***************************************************************************)
(* Scalars                                                                 *)
(***************************************************************************)
IntBits == 8
F32Digits == 24

IntMin == -(2^(IntBits - 1))
IntMax == 2^(IntBits - 1) - 1

Abs(n) == IF n < 0 THEN -n ELSE n

\* two's complement wrap-around of an exact result into IntMin..IntMax
Wrap(n) == ((n - IntMin) % (2^IntBits)) + IntMin

\* the f32 nearest to the integer n, ties to the even significand
F32Round(n) ==
    LET m == Abs(n)
    IN  IF m < 2^F32Digits THEN n
        ELSE LET e  == CHOOSE j \in 1..6 :
                          2^(F32Digits - 1 + j) <= m /\ m < 2^(F32Digits + j)
                 u  == 2^e
                 q  == m \div u
                 r  == m % u
                 up == \/ 2 * r > u
                       \/ 2 * r = u /\ q % 2 = 1
                 rm == IF up THEN (q + 1) * u ELSE q * u
             IN  IF n < 0 THEN -rm ELSE rm

\* the result of a scalar operation: a value, or failure of the task
Ok(v) == [ok |-> TRUE, v |-> v]
Fail == [ok |-> FALSE, v |-> 0]
FailArr == [ok |-> FALSE, v |-> <<>>]

zero == 0
one == 1

add(a, b) == IF S = "f32" THEN F32Round(a + b) ELSE Wrap(a + b)
sub(a, b) == IF S = "f32" THEN F32Round(a - b) ELSE Wrap(a - b)
mul(a, b) == IF S = "f32" THEN F32Round(a * b) ELSE Wrap(a * b)

\* integer quotient rounded toward zero
TruncDiv(a, b) ==
    IF (a < 0) = (b < 0) THEN Abs(a) \div Abs(b) ELSE -(Abs(a) \div Abs(b))

\* integer division: fails on a zero divisor; IntMin / -1 does not fit and
\* is left to the build (a trap, or the wrapped quotient)
div(a, b) ==
    IF b = 0 THEN Fail
    ELSE IF a = IntMin /\ b = -1
         THEN (IF overflow = "trap" THEN Fail ELSE Ok(Wrap(-a)))
         ELSE Ok(TruncDiv(a, b))

\* integer remainder, with the sign of the dividend
rem(a, b) ==
    IF b = 0 THEN Fail
    ELSE IF a = IntMin /\ b = -1
         THEN (IF overflow = "trap" THEN Fail ELSE Ok(0))
         ELSE Ok(a - b * TruncDiv(a, b))

(***************************************************************************)
(* Array, Vector                                                           *)
(***************************************************************************)
\* the dimension of a point or vector
N(a) == Cardinality(DOMAIN a)

\* Array::i
i(a, k) == a[k]

\* the indices of an n-component array
Idx(n) == 0..(n - 1)

\* Array::build: the closure f (index |-> result) called once per index,
\* ascending; a failing call fails the build
build(n, f) ==
    IF \E k \in Idx(n) : ~f[k].ok
    THEN FailArr
    ELSE Ok([k \in Idx(n) |-> f[k].v])

\* Array::each_mut: the closure called on each component in place,
\* ascending, f[k] being its result on component k; a failing call leaves
\* the components before it overwritten and the rest as they were
each_mut(self, f) ==
    LET bad   == {k \in DOMAIN self : ~f[k].ok}
        first == IF bad = {} THEN N(self)
                 ELSE CHOOSE k \in bad : \A j \in bad : k <= j
    IN  [ok |-> bad = {},
         v  |-> [k \in DOMAIN self |-> IF k < first THEN f[k].v ELSE self[k]]]

Vector4_new(x, y, z, w) == (0 :> x) @@ (1 :> y) @@ (2 :> z) @@ (3 :> w)

\* Vector4::truncate: the first three components
truncate(v) == [k \in 0..2 |-> v[k]]

\* Vector::mul_s
vec_mul_s(v, s) == [k \in DOMAIN v |-> mul(v[k], s)]

\* Vector::comp_add: the components added up in index order
comp_add(v) ==
    IF N(v) = 2 THEN add(v[0], v[1]) ELSE add(add(v[0], v[1]), v[2])

(***************************************************************************)
(* Point2, Point3                                                          *)
(***************************************************************************)
Point2_new(x, y) == (0 :> x) @@ (1 :> y)

Point3_new(x, y, z) == (0 :> x) @@ (1 :> y) @@ (2 :> z)

\* a slip in the fields copied out of e
from_homogeneous_bug(v) ==
    LET inv == div(one, v[3])
    IN  IF ~inv.ok THEN FailArr
        ELSE LET e == vec_mul_s(truncate(v), inv.v)
             IN  Ok(Point3_new(e[0], e[0], e[2]))

from_homogeneous(v) ==
    LET inv == div(one, v[3])
    IN  IF ~inv.ok THEN FailArr
        ELSE LET e == vec_mul_s(truncate(v), inv.v)
             IN  Ok(Point3_new(e[0], e[1], e[2]))

to_homogeneous(self) == Ok(Vector4_new(self[0], self[1], self[2], one))

(***************************************************************************)
(* trait Point                                                             *)
(***************************************************************************)
\* one for zero
origin_bug(n) == build(n, [k \in Idx(n) |-> Ok(one)])

origin(n) == build(n, [k \in Idx(n) |-> Ok(zero)])

from_vec(v) == build(N(v), [k \in DOMAIN v |-> Ok(i(v, k))])

\* every component read at index 0
to_vec_bug(self) ==
    build(N(self), [k \in DOMAIN self |-> Ok(i(self, 0))])

to_vec(self) ==
    build(N(self), [k \in DOMAIN self |-> Ok(i(self, k))])

mul_s(self, s) ==
    build(N(self), [k \in DOMAIN self |-> Ok(mul(i(self, k), s))])

div_s(self, s) ==
    build(N(self), [k \in DOMAIN self |-> div(i(self, k), s)])

\* what the doc comment above rem_s says: the scalar subtracted
rem_s_bug(self, s) ==
    build(N(self), [k \in DOMAIN self |-> Ok(sub(i(self, k), s))])

rem_s(self, s) ==
    build(N(self), [k \in DOMAIN self |-> rem(i(self, k), s)])

\* the vector read at index 0 for every component
add_v_bug(self, other) ==
    build(N(self), [k \in DOMAIN self |-> Ok(add(i(self, k), i(other, 0)))])

add_v(self, other) ==
    build(N(self), [k \in DOMAIN self |-> Ok(add(i(self, k), i(other, k)))])

\* the operands of the subtraction swapped
sub_p_bug(self, other) ==
    build(N(self), [k \in DOMAIN self |-> Ok(sub(i(other, k), i(self, k)))])

sub_p(self, other) ==
    build(N(self), [k \in DOMAIN self |-> Ok(sub(i(self, k), i(other, k)))])

\* in the in-place operations self[k] is x, the component each_mut hands to
\* the closure
mul_self_s(self, s) ==
    each_mut(self, [k \in DOMAIN self |-> Ok(mul(self[k], s))])

\* a zero divisor checked first and the point left as it is
div_self_s_bug(self, s) ==
    IF s = 0 THEN Ok(self)
    ELSE each_mut(self, [k \in DOMAIN self |-> div(self[k], s)])

div_self_s(self, s) ==
    each_mut(self, [k \in DOMAIN self |-> div(self[k], s)])

rem_self_s(self, s) ==
    each_mut(self, [k \in DOMAIN self |-> rem(self[k], s)])

\* the vector read at index 0 for every component
add_self_v_bug(self, other) ==
    each_mut(self, [k \in DOMAIN self |-> Ok(add(self[k], i(other, 0)))])

add_self_v(self, other) ==
    each_mut(self, [k \in DOMAIN self |-> Ok(add(self[k], i(other, k)))])

\* the point multiplied by itself
dot_bug(self, v) ==
    comp_add(build(N(self),
                   [k \in DOMAIN self |-> Ok(mul(i(self, k), i(self, k)))]).v)

dot(self, v) ==
    comp_add(build(N(self),
                   [k \in DOMAIN self |-> Ok(mul(i(self, k), i(v, k)))]).v)

(***************************************************************************)
(* Inputs                                                                  *)
(***************************************************************************)
ScalarTypes == {"i8", "f32"}

\* components of constructed points
PointComp ==
    IF S = "f32" THEN {-16777216, 1, 16777215} ELSE {IntMin, -1, 7}

\* components of vector arguments
VecComp == {-1, 2}

\* scalar arguments
Scalars == {-1, 0, 2}

Points(n) == [0..(n - 1) -> PointComp]
Vectors(n) == [0..(n - 1) -> VecComp]

(***************************************************************************)
(* The state machine: a point is constructed (Init) and operations are     *)
(* called on it, each call one step.  A call that fails ends the task.     *)
(***************************************************************************)
NoArg == [s |-> 0, v |-> <<>>]

\* a call of a &self or static operation: it returns r, the receiver stays
Returns(o, a, r, sr) ==
    /\ ~failed
    /\ ncalls < MaxCalls
    /\ op' = o
    /\ arg' = a
    /\ ret' = r.v
    /\ sret' = sr
    /\ failed' = ~r.ok
    /\ pre' = p
    /\ p' = p
    /\ ncalls' = ncalls + 1
    /\ UNCHANGED <<S, overflow>>

\* a call of a &mut self operation: r is the receiver it leaves
Mutates(o, a, r) ==
    /\ ~failed
    /\ ncalls < MaxCalls
    /\ op' = o
    /\ arg' = a
    /\ ret' = <<>>
    /\ sret' = 0
    /\ failed' = ~r.ok
    /\ pre' = p
    /\ p' = r.v
    /\ ncalls' = ncalls + 1
    /\ UNCHANGED <<S, overflow>>

Origin == Returns("origin", NoArg, origin(N(p)), 0)

FromVec == \E v \in Vectors(N(p)) :
    Returns("from_vec", [s |-> 0, v |-> v], from_vec(v), 0)

ToVec == Returns("to_vec", NoArg, to_vec(p), 0)

MulS == \E s \in Scalars :
    Returns("mul_s", [s |-> s, v |-> <<>>], mul_s(p, s), 0)

DivS == \E s \in Scalars :
    Returns("div_s", [s |-> s, v |-> <<>>], div_s(p, s), 0)

RemS == \E s \in Scalars :
    Returns("rem_s", [s |-> s, v |-> <<>>], rem_s(p, s), 0)

AddV == \E v \in Vectors(N(p)) :
    Returns("add_v", [s |-> 0, v |-> v], add_v(p, v), 0)

SubP == \E q \in Points(N(p)) :
    Returns("sub_p", [s |-> 0, v |-> q], sub_p(p, q), 0)

MulSelfS == \E s \in Scalars :
    Mutates("mul_self_s", [s |-> s, v |-> <<>>], mul_self_s(p, s))

DivSelfS == \E s \in Scalars :
    Mutates("div_self_s", [s |-> s, v |-> <<>>], div_self_s(p, s))

RemSelfS == \E s \in Scalars :
    Mutates("rem_self_s", [s |-> s, v |-> <<>>], rem_self_s(p, s))

AddSelfV == \E v \in Vectors(N(p)) :
    Mutates("add_self_v", [s |-> 0, v |-> v], add_self_v(p, v))

Dot == \E v \in Vectors(N(p)) :
    Returns("dot", [s |-> 0, v |-> v], Ok(<<>>), dot(p, v))

FromHomogeneous == \E x, y, z \in VecComp, w \in Scalars :
    LET v == Vector4_new(x, y, z, w)
    IN  Returns("from_homogeneous", [s |-> 0, v |-> v], from_homogeneous(v), 0)

ToHomogeneous ==
    /\ N(p) = 3
    /\ Returns("to_homogeneous", NoArg, to_homogeneous(p), 0)

InitOf(types) ==
    /\ S \in types
    /\ overflow \in (IF S = "f32" THEN {"trap"} ELSE {"trap", "wrap"})
    /\ \/ \E x, y \in PointComp : p = Point2_new(x, y)
       \/ \E x, y, z \in PointComp : p = Point3_new(x, y, z)
    /\ pre = p
    /\ op = "new"
    /\ arg = NoArg
    /\ ret = <<>>
    /\ sret = 0
    /\ failed = FALSE
    /\ ncalls = 0

\* every operation, over the integer scalar
Init == InitOf({"i8"})

Next ==
    \/ Origin \/ FromVec \/ ToVec
    \/ MulS \/ DivS \/ RemS
    \/ AddV \/ SubP
    \/ MulSelfS \/ DivSelfS \/ RemSelfS \/ AddSelfV
    \/ Dot
    \/ FromHomogeneous \/ ToHomogeneous

Spec == Init /\ [][Next]_vars

\* the operations that do not divide, over the integer and the floating
\* scalar
InitAffine == InitOf(ScalarTypes)

NextAffine ==
    \/ Origin \/ FromVec \/ ToVec
    \/ MulS
    \/ AddV \/ SubP
    \/ MulSelfS \/ AddSelfV
    \/ Dot
    \/ ToHomogeneous

SpecAffine == InitAffine /\ [][NextAffine]_vars

TypeOK ==
    /\ S \in ScalarTypes
    /\ N(p) \in {2, 3}
    /\ ncalls \in 0..MaxCalls
    /\ failed \in BOOLEAN

(***************************************************************************)
(* Properties                                                              *)
(***************************************************************************)
DivOps == {"div_s", "rem_s", "div_self_s", "rem_self_s"}
InPlaceOps == {"mul_self_s", "div_self_s", "rem_self_s", "add_self_v"}

\* the difference p - q of the last sub_p was representable as it is: no
\* component wrapped around or was rounded
SubExact == \A k \in DOMAIN pre : ret[k] = pre[k] - arg.v[k]

\* C1 as stated: for all points p and q over any scalar type, adding
\* p.sub_p(&q) back to q with add_v gives p in every component.
C1_DisplacementAnyScalar ==
    op = "sub_p" => ~failed /\ add_v(arg.v, ret) = Ok(pre)

\* C1 amended: q.add_v(&p.sub_p(&q)) == p for all points p, q over an
\* integer scalar (whose arithmetic wraps around), and over a floating
\* scalar whenever every component of p.sub_p(&q) is computed without
\* rounding.
C1_DisplacementLaw ==
    op = "sub_p" /\ (S = "i8" \/ SubExact)
        => ~failed /\ add_v(arg.v, ret) = Ok(pre)

\* an integer subtraction that wrapped around, and a floating one that was
\* exact
C1_Witness ==
    /\ op = "sub_p"
    /\ \/ S = "i8" /\ ~SubExact
       \/ S = "f32" /\ SubExact /\ ret[0] # 0

\* C2 as stated: for every Vector4 (x, y, z, w) with w nonzero and every
\* scalar type, from_homogeneous returns the point (x/w, y/w, z/w).
C2_FromHomogeneousDivides ==
    op = "from_homogeneous" /\ arg.v[3] # 0
        => /\ ~failed
           /\ DOMAIN ret = 0..2
           /\ \A k \in 0..2 : Ok(ret[k]) = div(arg.v[k], arg.v[3])

\* C3: for every Point3 p, p.to_homogeneous() is (p.x, p.y, p.z, 1) and
\* from_homogeneous of it is p again.
C3_HomogeneousRoundTrip ==
    op = "to_homogeneous"
        => /\ ~failed
           /\ ret = Vector4_new(pre[0], pre[1], pre[2], 1)
           /\ from_homogeneous(ret) = Ok(pre)

C3_Witness ==
    /\ op = "to_homogeneous"
    /\ ~failed
    /\ pre[0] = IntMin /\ pre[1] = -1 /\ pre[2] = 7

\* C4: from_vec and to_vec copy component k to component k for every k,
\* and each undoes the other.
C4_VecRoundTrip ==
    /\ op = "from_vec"
        => /\ ~failed
           /\ DOMAIN ret = DOMAIN arg.v
           /\ \A k \in DOMAIN arg.v : ret[k] = arg.v[k]
           /\ to_vec(ret) = Ok(arg.v)
    /\ op = "to_vec"
        => /\ ~failed
           /\ DOMAIN ret = DOMAIN pre
           /\ \A k \in DOMAIN pre : ret[k] = pre[k]
           /\ from_vec(ret) = Ok(pre)

C4_Witness ==
    /\ op = "to_vec"
    /\ N(pre) = 3
    /\ pre[0] # pre[1] /\ pre[1] # pre[2]

\* C5: after an in-place operation the receiver is what the operation's
\* pure variant returns on the receiver as it was (and the in-place one
\* fails exactly when the pure one does); the dimension stays and nothing
\* is returned.
C5_InPlaceIsPure ==
    /\ op = "mul_self_s" => ~failed /\ Ok(p) = mul_s(pre, arg.s)
    /\ op = "div_self_s"
        => /\ failed <=> ~div_s(pre, arg.s).ok
           /\ ~failed => Ok(p) = div_s(pre, arg.s)
    /\ op = "rem_self_s"
        => /\ failed <=> ~rem_s(pre, arg.s).ok
           /\ ~failed => Ok(p) = rem_s(pre, arg.s)
    /\ op = "add_self_v" => ~failed /\ Ok(p) = add_v(pre, arg.v)
    /\ op \in InPlaceOps => DOMAIN p = DOMAIN pre /\ ret = <<>> /\ sret = 0

C5_Witness ==
    /\ op = "add_self_v"
    /\ ~failed
    /\ p # pre
    /\ arg.v[0] # arg.v[1]

SumOfProducts(a, b) ==
    IF N(a) = 2 THEN a[0] * b[0] + a[1] * b[1]
    ELSE a[0] * b[0] + a[1] * b[1] + a[2] * b[2]

\* C7: dot returns the sum over k of p.k * v.k, in the scalar's arithmetic,
\* and leaves the receiver as it was; Point2(1,2).dot((3,4)) is 11.
C7_DotIsSumOfProducts ==
    /\ op = "dot"
        => /\ ~failed
           /\ sret = Wrap(SumOfProducts(pre, arg.v))
           /\ p = pre
    /\ dot(Point2_new(1, 2), Point2_new(3, 4)) = 11

C7_Witness ==
    /\ op = "dot"
    /\ N(pre) = 3
    /\ sret # SumOfProducts(pre, arg.v)

\* C8 as stated: a zero divisor (w = 0 for from_homogeneous) fails the
\* operation, an in-place one before any component is written, and every
\* operation with a nonzero divisor or with no divisor returns.
C8_OnlyZeroDivisorFails ==
    /\ op \in DivOps /\ arg.s = 0 => failed
    /\ op \in {"div_self_s", "rem_self_s"} /\ failed => p = pre
    /\ op = "from_homogeneous" /\ arg.v[3] = 0 => failed
    /\ op \in DivOps /\ arg.s # 0 => ~failed
    /\ op = "from_homogeneous" /\ arg.v[3] # 0 => ~failed
    /\ op \notin DivOps \cup {"from_homogeneous"} => ~failed

\* a component the divisor -1 overflows on
Overflows == arg.s = -1 /\ \E k \in DOMAIN pre : pre[k] = IntMin

\* C8 amended: as stated, except that dividing (or taking the remainder
\* of) a component equal to the signed minimum by -1 is a second case the
\* scalar type decides: where the build traps on it the operation fails
\* too, an in-place one with the components before that one already
\* overwritten; where it wraps the operation returns.
C8_DivisorFailures ==
    /\ op \in DivOps /\ arg.s = 0 => failed /\ p = pre
    /\ op = "from_homogeneous" /\ arg.v[3] = 0 => failed
    /\ op \in DivOps /\ arg.s # 0 /\ ~Overflows => ~failed
    /\ op \in DivOps /\ Overflows => (failed <=> overflow = "trap")
    /\ op \in {"div_self_s", "rem_self_s"} /\ Overflows /\ failed
        => \A k \in DOMAIN pre :
              p[k] = IF \A j \in 0..k : pre[j] # IntMin
                     THEN (IF op = "div_self_s" THEN Wrap(-pre[k]) ELSE 0)
                     ELSE pre[k]
    /\ op = "from_homogeneous" /\ arg.v[3] # 0 => ~failed
    /\ op \notin DivOps \cup {"from_homogeneous"} => ~failed

\* div_self_s by zero on a point whose components were not all alike
C8_Witness ==
    /\ op = "div_self_s"
    /\ arg.s = 0
    /\ failed
    /\ p[0] # p[1]

\* C9: origin returns the point of the receiver's type with every
\* component zero.
C9_OriginIsZero ==
    op = "origin"
        => /\ ~failed
           /\ DOMAIN ret = DOMAIN pre
           /\ \A k \in DOMAIN ret : ret[k] = 0

C9_Witness == op = "origin" /\ N(ret) = 3 /\ pre[0] # 0

====
